---- MODULE Spec2Model ----
(***************************************************************************)
(* claude-wrapped, src/ai.js: the in-browser text generation pipeline.     *)
(*                                                                         *)
(* The module-level backend state (generator, modelLoading, modelReady),   *)
(* loadModel with its polling waiters, generate with its output            *)
(* normalisation, the retry loops of generatePoem and generatePredictions, *)
(* the validators and the template fallbacks.                              *)
(*                                                                         *)
(* JavaScript runs one job at a time: an action below is the code that     *)
(* runs between two awaits of one call.  Strings are TLA+ strings, read    *)
(* with Len, SubSeq and \o.                                                *)
(***************************************************************************)
EXTENDS Naturals, Sequences, FiniteSets, TLC

(***************************************************************************)
(* Bounds of the model.                                                    *)
(***************************************************************************)
\* direct callers of loadModel / generate
NumCallers == 3
\* the direct callers of loadModel that run beside a poem or predictions call
NumBackground == 1
\* underlying pipeline loads that may fail; later loads succeed
MaxFailedLoads == 2

\* tokens of a text given to hasWordRepetition or to the prediction validator
MaxTokens == 4

\* lines of a response given to the poem validator
MaxLines == 4

\* entries of a message list given to the normaliser
MaxMsgs == 2

(***************************************************************************)
(* Program constants.                                                      *)
(***************************************************************************)
MODEL_SIZE_MB == 150
MAX_RETRIES == 5

\* JavaScript null / undefined
Null == "<null>"

(***************************************************************************)
(* Strings.                                                                *)
(***************************************************************************)
Char(s, i) == SubSeq(s, i, i)

Slice(s, i) == SubSeq(s, i, Len(s))

UpperChars == "ABCDEFGHIJKLMNOPQRSTUVWXYZ"

LowerChars == "abcdefghijklmnopqrstuvwxyz"

DigitChars == "0123456789"

IsDigit(c) == \E i \in 1..10 : Char(DigitChars, i) = c

\* \s of a JavaScript regular expression, for the characters of the model
IsSpace(c) == c \in {" ", "\t", "\n", "\r"}

LowerChar(c) ==
    IF \E i \in 1..26 : Char(UpperChars, i) = c
    THEN Char(LowerChars, CHOOSE i \in 1..26 : Char(UpperChars, i) = c)
    ELSE c

UpperChar(c) ==
    IF \E i \in 1..26 : Char(LowerChars, i) = c
    THEN Char(UpperChars, CHOOSE i \in 1..26 : Char(LowerChars, i) = c)
    ELSE c

RECURSIVE ToLowerCase(_)
ToLowerCase(s) ==
    IF s = "" THEN "" ELSE LowerChar(Head(s)) \o ToLowerCase(Tail(s))

\* s.charAt(0).toUpperCase() + s.slice(1)
Capitalize(s) == IF s = "" THEN "" ELSE UpperChar(Head(s)) \o Tail(s)

RECURSIVE TrimStart(_)
TrimStart(s) ==
    IF s # "" /\ IsSpace(Head(s)) THEN TrimStart(Tail(s)) ELSE s

RECURSIVE TrimEnd(_)
TrimEnd(s) ==
    IF s # "" /\ IsSpace(Char(s, Len(s)))
    THEN TrimEnd(SubSeq(s, 1, Len(s) - 1))
    ELSE s

Trim(s) == TrimEnd(TrimStart(s))

StartsWith(s, p) == Len(p) <= Len(s) /\ SubSeq(s, 1, Len(p)) = p

\* p occurs in s
Contains(s, p) ==
    \E i \in 1..(Len(s) + 1) :
        i + Len(p) - 1 <= Len(s) /\ SubSeq(s, i, i + Len(p) - 1) = p

\* case-insensitive forms (the i flag)
StartsWithI(s, p) == StartsWith(ToLowerCase(s), ToLowerCase(p))

ContainsI(s, p) == Contains(ToLowerCase(s), ToLowerCase(p))

\* s.split(c) for a one-character separator
RECURSIVE SplitFrom(_, _, _)
SplitFrom(s, c, cur) ==
    IF s = "" THEN <<cur>>
    ELSE IF Head(s) = c THEN <<cur>> \o SplitFrom(Tail(s), c, "")
    ELSE SplitFrom(Tail(s), c, cur \o Head(s))

Split(s, c) == SplitFrom(s, c, "")

\* s.split(/\s+/): a run of white space is one separator; white space at
\* either end leaves an empty first or last field
RECURSIVE SplitWsFrom(_, _)
SplitWsFrom(s, cur) ==
    IF s = "" THEN <<cur>>
    ELSE IF IsSpace(Head(s)) THEN <<cur>> \o SplitWsFrom(TrimStart(s), "")
    ELSE SplitWsFrom(Tail(s), cur \o Head(s))

SplitWs(s) == SplitWsFrom(s, "")

\* ss.slice(0, n)
Take(ss, n) == SubSeq(ss, 1, IF n <= Len(ss) THEN n ELSE Len(ss))

\* lines.join(sep)
RECURSIVE Join(_, _)
Join(ss, sep) ==
    IF ss = <<>> THEN ""
    ELSE IF Len(ss) = 1 THEN ss[1]
    ELSE ss[1] \o sep \o Join(Tail(ss), sep)

\* String(n) for a natural number
RECURSIVE NumToString(_)
NumToString(n) ==
    IF n < 10 THEN Char(DigitChars, n + 1)
    ELSE NumToString(n \div 10) \o Char(DigitChars, (n % 10) + 1)

\* some character occurs k or more times in a row: /(.)\1{k-1,}/ ("." does
\* not match a line break)
HasCharRun(s, k) ==
    \E i \in 1..Len(s) :
        /\ i + k - 1 <= Len(s)
        /\ Char(s, i) \notin {"\n", "\r"}
        /\ \A j \in i..(i + k - 1) : Char(s, j) = Char(s, i)

\* k or more digits in a row: /\d{k,}/
HasDigitRun(s, k) ==
    \E i \in 1..Len(s) :
        /\ i + k - 1 <= Len(s)
        /\ \A j \in i..(i + k - 1) : IsDigit(Char(s, j))

\* the length of the longest prefix of s made of digits
RECURSIVE DigitPrefixLen(_)
DigitPrefixLen(s) ==
    IF s # "" /\ IsDigit(Head(s)) THEN 1 + DigitPrefixLen(Tail(s)) ELSE 0


(***************************************************************************)
(* generate: output normalisation (ai.js 100-114).                         *)
(*                                                                         *)
(* A raw backend output is the value of output[0]?.generated_text:         *)
(*   [shape |-> "string",   text |-> s]                                    *)
(*   [shape |-> "messages", msgs |-> <<[role |-> r, content |-> c], ..>>]  *)
(*   [shape |-> "object",   content |-> c]                                 *)
(*   [shape |-> "null"]                                                    *)
(* with Null for a content that is null or undefined.                      *)
(***************************************************************************)
Falsy(v) == v = Null \/ v = ""

\* a || b
OrElse(a, b) == IF Falsy(a) THEN b ELSE a

\* an entry { role, content } of a message list
Msg(role, content) == [present |-> TRUE, role |-> role, content |-> content]

\* an entry of a message list that is null or undefined
NullEntry == [present |-> FALSE, role |-> Null, content |-> Null]

\* ai.js 105: the callback m => m.role === 'assistant' reads m.role of every
\* entry up to the first assistant entry; reading it of null is a TypeError
FindThrows(msgs) ==
    \E i \in 1..Len(msgs) :
        /\ ~msgs[i].present
        /\ \A j \in 1..(i - 1) : msgs[j].role # "assistant"

\* result.find(m => m.role === 'assistant')?.content
\*     || result[result.length - 1]?.content || ''
MessagesText(msgs) ==
    LET idx == {i \in 1..Len(msgs) : msgs[i].role = "assistant"}
        first == IF idx = {} THEN Null
                 ELSE msgs[CHOOSE i \in idx : \A j \in idx : i <= j].content
        last == IF msgs = <<>> THEN Null ELSE msgs[Len(msgs)].content
    IN  OrElse(first, OrElse(last, ""))

\* ai.js 101, 105: output[0] of an output that is null or undefined, and
\* m.role of an entry that is null or undefined, throw a TypeError
NormalizeThrows(raw) ==
    \/ raw.shape = "no_output"
    \/ raw.shape = "messages" /\ FindThrows(raw.msgs)

\* ai.js 101-114: the string generate returns when nothing was thrown
Normalize(raw) ==
    CASE raw.shape = "string" -> OrElse(raw.text, "")
      [] raw.shape = "messages" -> MessagesText(raw.msgs)
      [] raw.shape = "object" ->
            \* String(result) of an object whose content is falsy
            IF Falsy(raw.content) THEN "[object Object]" ELSE raw.content
      [] OTHER -> ""

(***************************************************************************)
(* hasWordRepetition (ai.js 117-137).                                      *)
(***************************************************************************)
\* the counting loop: some word of length >= 3 reaches a count of 3
ThirdOccurrence(words) ==
    \E i \in 1..Len(words) :
        /\ Len(words[i]) >= 3
        /\ Cardinality({j \in 1..i : words[j] = words[i]}) >= 3

\* the bigram loop: for (i = 0; i < words.length - 3; i++)
RepeatedBigram(words) ==
    \E i \in 1..Len(words) :
        /\ i + 3 <= Len(words)
        /\ (words[i] \o " " \o words[i + 1])
             = (words[i + 2] \o " " \o words[i + 3])

hasWordRepetition(text) ==
    LET words == SplitWs(ToLowerCase(text))
    IN  IF Len(words) < 4 THEN FALSE
        ELSE ThirdOccurrence(words) \/ RepeatedBigram(words)

(***************************************************************************)
(* generatePoem: the lines of a response and their validation              *)
(* (ai.js 182-211).                                                        *)
(***************************************************************************)
\* l.replace(/^(\d+[\.\):]?\s*|Line\s*\d+:?\s*)/i, '')
StripLinePrefix(l) ==
    LET d == DigitPrefixLen(l)
    IN  IF d > 0
        THEN LET r == Slice(l, d + 1)
                 q == IF r # "" /\ Head(r) \in {".", ")", ":"} THEN Tail(r) ELSE r
             IN  TrimStart(q)
        ELSE IF StartsWithI(l, "line")
        THEN LET a == TrimStart(Slice(l, 5))
                 n == DigitPrefixLen(a)
                 b == Slice(a, n + 1)
                 c == IF b # "" /\ Head(b) = ":" THEN Tail(b) ELSE b
             IN  IF n = 0 THEN l ELSE TrimStart(c)
        ELSE l

\* /^(example|haiku|write|now|here|sure|i |i'm|okay|let)/i
PoemMetaPrefixes ==
    {"example", "haiku", "write", "now", "here", "sure", "i ", "i'm", "okay", "let"}

\* /[\[\]<>{}|\\]|:$/
PoemSpecialChars == {"[", "]", "<", ">", "{", "}", "|", "\\"}

PoemLineKept(l) ==
    /\ ~(Len(l) < 4 \/ Len(l) > 50)
    /\ ~(\E p \in PoemMetaPrefixes : StartsWithI(l, p))
    /\ ~(\E i \in 1..Len(l) : Char(l, i) \in PoemSpecialChars)
    /\ ~(l # "" /\ Char(l, Len(l)) = ":")

PoemLines(response) ==
    LET raw == Split(Trim(response), "\n")
        trimmed == [i \in 1..Len(raw) |-> Trim(raw[i])]
        stripped == [i \in 1..Len(trimmed) |-> StripLinePrefix(trimmed[i])]
    IN  SelectSeq(stripped, PoemLineKept)

\* /R\.I\.|Refract|Cléau|SmolLM|https?:/i
PoemGibberishWords == {"R.I.", "Refract", "Cléau", "SmolLM", "http:", "https:"}

\* /(.)\1{3,}/ : a character and three or more repeats of it
PoemCharRun == 4

LineIsGibberish(l) ==
    \/ \E w \in PoemGibberishWords : ContainsI(l, w)
    \/ HasCharRun(l, PoemCharRun)

hasGibberish(lines) == \E i \in 1..Len(lines) : LineIsGibberish(lines[i])

PoemMinWords == 2

PoemMaxWords == 8

validLineLengths(lines) ==
    \A i \in 1..Len(lines) :
        LET wordCount == Len(SplitWs(lines[i]))
        IN  wordCount >= PoemMinWords /\ wordCount <= PoemMaxWords

PoemLinesKept == 3

PoemAccepted(response) ==
    LET lines == PoemLines(response)
    IN  Len(lines) >= PoemLinesKept /\ ~hasGibberish(lines) /\ validLineLengths(lines)

\* lines.slice(0, 3).join('\n')
Haiku(response) == Join(Take(PoemLines(response), PoemLinesKept), "\n")

(***************************************************************************)
(* generatePredictions: the completion of a response and its validation    *)
(* (ai.js 252-266).                                                        *)
(***************************************************************************)
\* response.trim().split('\n')[0].trim(), then .replace(/^→\s*/, '').trim()
Completion(response) ==
    LET first == Trim(Split(Trim(response), "\n")[1])
    IN  Trim(IF StartsWith(first, "→") THEN TrimStart(Tail(first)) ELSE first)

\* /\d{3,}|level up|you will be|you'll be a \d/i
PredBanned(c) ==
    \/ HasDigitRun(c, 3)
    \/ ContainsI(c, "level up")
    \/ ContainsI(c, "you will be")
    \/ \E d \in 1..10 : ContainsI(c, "you'll be a " \o Char(DigitChars, d))

\* /(.)\1{4,}/ : a character and four or more repeats of it
PredCharRun == 5

\* /^(I |I'm |I'll |I've |Here|Please|Sure|Let me)/i
PredMetaPrefixes ==
    {"I ", "I'm ", "I'll ", "I've ", "Here", "Please", "Sure", "Let me"}

\* /help|assist|provide|question/i
PredAssistantWords == {"help", "assist", "provide", "question"}

PredMinLen == 5

PredMaxLen == 80

PredMinWords == 3

PredMaxWords == 20

isValid(completion) ==
    LET words == SplitWs(completion)
    IN  /\ Len(completion) >= PredMinLen /\ Len(completion) <= PredMaxLen
        /\ Len(words) >= PredMinWords /\ Len(words) <= PredMaxWords
        /\ ~PredBanned(completion)
        /\ ~HasCharRun(completion, PredCharRun)
        /\ ~hasWordRepetition(completion)
        /\ ~(\E p \in PredMetaPrefixes : StartsWithI(completion, p))
        /\ ~(Contains(completion, "?") \/ Contains(completion, "!!"))
        /\ ~(\E w \in PredAssistantWords : ContainsI(completion, w))

(***************************************************************************)
(* The profile (wrappedData) and the templates built from it.              *)
(*   [archetype |-> name or Null, themes |-> <<title, ..>>,                *)
(*    unigrams |-> <<phrase, ..>>, messages_sent |-> n]                    *)
(* with Null for a missing archetype and 0 for a missing message count.    *)
(***************************************************************************)
\* xs?.[i]?.field of a ranked list (0-based i)
At(xs, i) == IF i + 1 <= Len(xs) THEN xs[i + 1] ELSE Null

\* the four { start, fallback } pairs of generatePredictions (ai.js 222-235)
Prompts(wd) ==
    LET topTheme == OrElse(At(wd.themes, 0), "learning")
        secondTheme == OrElse(At(wd.themes, 1), "creating")
        style == OrElse(wd.archetype, "Explorer")
        topWord == OrElse(At(wd.unigrams, 0), "ideas")
    IN  << [start |-> "In 2026, your " \o topTheme \o " skills will",
            fallback |-> "Your " \o topTheme \o " obsession will reach new heights"],
           [start |-> "As a " \o style \o ", you'll discover",
            fallback |-> "As a true " \o style \o ", you'll discover 3 new use cases"],
           [start |-> "Your favorite word \"" \o topWord \o "\" will",
            fallback |-> "\"" \o topWord \o "\" will become your catchphrase"],
           [start |-> "Next year in " \o secondTheme \o ", you'll",
            fallback |-> "Your " \o secondTheme \o " journey will surprise you"] >>

\* getFallbackPredictions (ai.js 292-306)
getFallbackPredictions(wd) ==
    LET topTheme == OrElse(At(wd.themes, 0), "exploring ideas")
        secondTheme == OrElse(At(wd.themes, 1), "creative projects")
        style == OrElse(wd.archetype, "Ranger")
        \* stats?.messages_sent || 0: a missing count reads as 0
        msgCount == wd.messages_sent
        topWord == OrElse(At(wd.unigrams, 0), "curiosity")
    IN  << "Your " \o topTheme \o " obsession will reach new heights in 2026",
           "As a true " \o style \o ", you'll discover at least 3 new AI use cases",
           "Your message count will double - " \o NumToString(msgCount * 2)
               \o "+ messages incoming",
           "\"" \o topWord \o "\" will become your catchphrase in "
               \o secondTheme \o " discussions" >>

\* getFallbackPoem (ai.js 308-317)
getFallbackPoem(wd) ==
    LET style == OrElse(IF wd.archetype = Null THEN Null
                        ELSE ToLowerCase(wd.archetype), "seeker")
        topTheme == OrElse(IF At(wd.themes, 0) = Null THEN Null
                           ELSE ToLowerCase(At(wd.themes, 0)), "ideas")
        topWord == OrElse(At(wd.unigrams, 0), "wonder")
    IN  Capitalize(style) \o " of " \o topTheme \o "\n"
          \o Capitalize(topWord) \o " guides the path forward\n"
          \o "Claude lights the way"

(***************************************************************************)
(* The environment of the model: the calls made and what the backend may   *)
(* answer.                                                                 *)
(***************************************************************************)
\* task 0 is a call of generatePoem or generatePredictions; the tasks from 1
\* are direct calls of loadModel or generate
Tasks == 0..NumCallers

IsBatch(t) == t = 0

wdFull ==
    [archetype |-> "Learner", themes |-> <<"Coding", "Writing">>,
     unigrams |-> <<"remix">>, messages_sent |-> 106]

wdEmpty ==
    [archetype |-> Null, themes |-> <<>>, unigrams |-> <<>>, messages_sent |-> 0]

Profiles == {wdFull, wdEmpty}

\* raw outputs of the backend: a three-line poem, a chat transcript with a
\* usable completion, a transcript whose only entry is null, conversational
\* filler, an object without content, and no text at all
RawOutputs ==
    { [shape |-> "string",
       text |-> "Morning light\nCoffee steams beside keyboard\nNew ideas bloom\n"],
      [shape |-> "messages",
       msgs |-> << Msg("user", "Now complete"),
                   Msg("assistant",
                       " → unlock new creative possibilities\nExample:") >>],
      [shape |-> "messages", msgs |-> << NullEntry >>],
      [shape |-> "string", text |-> "Sure, here is a haiku"],
      [shape |-> "object", content |-> Null],
      [shape |-> "null"] }

\* Each answer is worked out once: the text generate returns for it, and what
\* the poem loop and the prediction loop make of that text.
Answer ==
    [raw \in RawOutputs |->
        LET text == Normalize(raw)
        IN  [threw |-> NormalizeThrows(raw),
             text |-> text,
             poemAccepted |-> PoemAccepted(text),
             haiku |-> Haiku(text),
             completion |-> Completion(text),
             predValid |-> isValid(Completion(text))]]

\* The templates of each profile, worked out once.
PromptsOf == [wd \in Profiles |-> Prompts(wd)]

FallbackPoemOf == [wd \in Profiles |-> getFallbackPoem(wd)]

FallbackPredictionsOf == [wd \in Profiles |-> getFallbackPredictions(wd)]

\* progress.progress of the 'progress' events of a load
ProgressPercents == {50}

(***************************************************************************)
(* State.                                                                  *)
(***************************************************************************)
VARIABLES
    generator,      \* ai.js 16: the cached pipeline, NoHandle for null
    modelLoading,   \* ai.js 17
    modelReady,     \* ai.js 18
    op,             \* the exported function a task called
    pc,             \* where the task's call is suspended
    site,           \* the call site of the task's current loadModel call
    lmObs,          \* whether that loadModel call was given onProgress
    ret,            \* the value that loadModel call returned
    wrappedData,    \* the profile given to generatePoem / generatePredictions
    unit,           \* index of the prompt generatePredictions is working on
    attempt,        \* the loop variable attempt
    predictions,    \* the array predictions
    outcome,        \* "pending", "resolved" or "rejected"
    result,         \* the value a resolved call resolved with
    loadsStarted,   \* pipeline() calls made so far
    loadsFailed,    \* the loads that were rejected
    loadOf,         \* the load a task's pending pipeline() call is running
    joined,         \* the load in flight when the task began to wait
    calls,          \* generate calls made for the unit being worked on
    exhausted,      \* per finished unit: the calls made when it fell back
    lastNote,       \* the last notification given to the task's observer
    firstLoad,      \* how the batch's own loadModel call ended
    counting,       \* whether the generate calls of each call are counted
    total,          \* generate calls a poem or predictions call has made
    probe           \* one application of a pure function: argument, result

backend == <<generator, modelLoading, modelReady>>

loader == <<site, lmObs, ret, loadsStarted, loadsFailed, loadOf, joined>>

loop == <<unit, attempt, predictions, calls, exhausted, total>>

\* what no call of the exported functions changes
fixed == <<counting, probe>>

vars ==
    <<generator, modelLoading, modelReady, op, pc, site, lmObs, ret,
      wrappedData, unit, attempt, predictions, outcome, result, loadsStarted,
      loadsFailed, loadOf, joined, calls, exhausted, lastNote, firstLoad,
      counting, total, probe>>

NoHandle == 0

NoNote == [status |-> "none"]

\* (percent / 100 * MODEL_SIZE_MB).toFixed(1), for a whole percent
LoadedMB(percent) ==
    LET tenths == (percent * MODEL_SIZE_MB) \div 10
    IN  NumToString(tenths \div 10) \o "." \o NumToString(tenths % 10)

\* ai.js 51-57
ProgressNote(percent) ==
    [percent |-> percent, loaded |-> LoadedMB(percent), total |-> MODEL_SIZE_MB,
     status |-> "progress"]

\* ai.js 59
ReadyNote ==
    [percent |-> 100, loaded |-> MODEL_SIZE_MB, total |-> MODEL_SIZE_MB,
     status |-> "ready"]

LoadError == "Failed to load AI model. Your browser may not support WebGPU/WASM."

\* no function is being applied on its own
NoProbe == [fn |-> "none", arg |-> Null, done |-> FALSE, out |-> Null]

\* ai.js 16-18: the module as loaded, no call made yet
InitProgram ==
    /\ generator = NoHandle
    /\ modelLoading = FALSE
    /\ modelReady = FALSE
    /\ op = [t \in Tasks |-> "none"]
    /\ pc = [t \in Tasks |-> "idle"]
    /\ site = [t \in Tasks |-> "none"]
    /\ lmObs = [t \in Tasks |-> FALSE]
    /\ ret = [t \in Tasks |-> NoHandle]
    /\ wrappedData = [t \in Tasks |-> wdEmpty]
    /\ unit = [t \in Tasks |-> 0]
    /\ attempt = [t \in Tasks |-> 0]
    /\ predictions = [t \in Tasks |-> <<>>]
    /\ outcome = [t \in Tasks |-> "pending"]
    /\ result = [t \in Tasks |-> Null]
    /\ loadsStarted = 0
    /\ loadsFailed = {}
    /\ loadOf = [t \in Tasks |-> 0]
    /\ joined = [t \in Tasks |-> 0]
    /\ calls = [t \in Tasks |-> 0]
    /\ exhausted = [t \in Tasks |-> <<>>]
    /\ lastNote = [t \in Tasks |-> NoNote]
    /\ firstLoad = [t \in Tasks |-> "none"]
    /\ total = [t \in Tasks |-> 0]

Init ==
    /\ InitProgram
    /\ counting = FALSE
    /\ probe = NoProbe

(***************************************************************************)
(* loadModel (ai.js 24-72).                                                *)
(***************************************************************************)
\* a loadModel that does not look at the cached pipeline
AlreadyLoaded_Never == FALSE

\* ai.js 25: if (modelReady && generator) return generator;
AlreadyLoaded == modelReady /\ generator # NoHandle

\* a loadModel that does not look at modelLoading
LoadInFlight_Ignored == FALSE

\* ai.js 26: if (modelLoading)
LoadInFlight == modelLoading

\* the loads whose pipeline() promise is pending
InFlight == {loadOf[t] : t \in {u \in Tasks : pc[u] = "lm_loading"}}

\* a loadModel without the finally block
FinallyLoading_Kept == TRUE

\* the value of modelLoading after the finally block (ai.js 69-71)
FinallyLoading == FALSE

\* the value of modelReady after a successful load (ai.js 64)
ReadyAfterLoad == TRUE

\* A call of loadModel from call site s, up to its first await or its return.
LoadModelEntry(t, s, obs) ==
    /\ site' = [site EXCEPT ![t] = s]
    /\ lmObs' = [lmObs EXCEPT ![t] = obs]
    /\ IF AlreadyLoaded
       THEN /\ pc' = [pc EXCEPT ![t] = "lm_ret"]
            /\ ret' = [ret EXCEPT ![t] = generator]
            /\ joined' = [joined EXCEPT ![t] = 0]
            /\ UNCHANGED <<modelLoading, loadsStarted, loadOf>>
       ELSE IF LoadInFlight
       THEN /\ pc' = [pc EXCEPT ![t] = "lm_wait"]
            /\ joined' = [joined EXCEPT ![t] =
                             IF InFlight = {} THEN 0 ELSE CHOOSE l \in InFlight : TRUE]
            /\ UNCHANGED <<ret, modelLoading, loadsStarted, loadOf>>
       ELSE /\ modelLoading' = TRUE
            /\ pc' = [pc EXCEPT ![t] = "lm_loading"]
            /\ loadsStarted' = loadsStarted + 1
            /\ loadOf' = [loadOf EXCEPT ![t] = loadsStarted + 1]
            /\ joined' = [joined EXCEPT ![t] = 0]
            /\ UNCHANGED ret
    /\ UNCHANGED <<generator, modelReady, loadsFailed>>

\* ai.js 28-31: the 100 ms timer of a waiter fires and finds the load over
PollTimer(t) ==
    /\ pc[t] = "lm_wait"
    /\ ~LoadInFlight
    /\ pc' = [pc EXCEPT ![t] = "lm_ret"]
    /\ ret' = [ret EXCEPT ![t] = generator]
    /\ UNCHANGED <<backend, op, site, lmObs, wrappedData, loop, outcome, result,
                   loadsStarted, loadsFailed, loadOf, joined, lastNote, firstLoad, fixed>>

\* ai.js 47-57: the pipeline reports download progress to the observer of
\* the call that started the load (events of any other status, and events of
\* a load started without an observer, change nothing)
PipelineProgress(t, percent) ==
    /\ pc[t] = "lm_loading"
    /\ lmObs[t]
    /\ lastNote' = [lastNote EXCEPT ![t] = ProgressNote(percent)]
    /\ UNCHANGED <<backend, op, pc, loader, wrappedData, loop, outcome, result,
                   firstLoad, fixed>>

\* ai.js 44, 58-59, 64-65, 69-71: the pipeline reports 'ready' as its last
\* event and resolves; the assignment of generator, modelReady = true, the
\* return and the finally block run in one job
PipelineResolve(t) ==
    /\ pc[t] = "lm_loading"
    /\ lastNote' = [lastNote EXCEPT ![t] = IF lmObs[t] THEN ReadyNote ELSE @]
    /\ generator' = loadOf[t]
    /\ modelReady' = ReadyAfterLoad
    /\ modelLoading' = FinallyLoading
    /\ pc' = [pc EXCEPT ![t] = "lm_ret"]
    /\ ret' = [ret EXCEPT ![t] = loadOf[t]]
    /\ loadOf' = [loadOf EXCEPT ![t] = 0]
    /\ UNCHANGED <<op, site, lmObs, wrappedData, loop, outcome, result,
                   loadsStarted, loadsFailed, joined, firstLoad, fixed>>

\* ai.js 66-71: the pipeline rejects; loadModel throws its own error
PipelineReject(t) ==
    /\ pc[t] = "lm_loading"
    /\ Cardinality(loadsFailed) < MaxFailedLoads
    /\ loadsFailed' = loadsFailed \cup {loadOf[t]}
    /\ modelLoading' = FinallyLoading
    /\ pc' = [pc EXCEPT ![t] = "lm_throw"]
    /\ loadOf' = [loadOf EXCEPT ![t] = 0]
    /\ UNCHANGED <<generator, modelReady, op, site, lmObs, ret, wrappedData, loop,
                   outcome, result, loadsStarted, joined, lastNote, firstLoad, fixed>>

(***************************************************************************)
(* How a call ends, and how a loop calls generate.                         *)
(***************************************************************************)
\* the promise of the task's call is resolved or rejected with val
Settle(t, how, val) ==
    /\ pc' = [pc EXCEPT ![t] = "done"]
    /\ outcome' = [outcome EXCEPT ![t] = how]
    /\ result' = [result EXCEPT ![t] = val]
    /\ UNCHANGED <<backend, loader>>

\* one more generate call of the task's poem or predictions call
Counted(t) == total' = [total EXCEPT ![t] = IF counting THEN @ + 1 ELSE @]

\* ai.js 82-83: generate(prompt, n) and its call of loadModel()
CallGenerate(t) ==
    /\ LoadModelEntry(t, "generate", FALSE)
    /\ UNCHANGED <<outcome, result>>

\* a loop that runs while attempt <= MAX_RETRIES + 1
AttemptsLeft_OneMore(a) == a <= MAX_RETRIES

\* ai.js 178, 241: attempt++ keeps the loop going
AttemptsLeft(a) == a + 1 <= MAX_RETRIES

\* a loop that drops an exhausted unit
PushFallback_Skipped(preds, fallback) == preds

\* ai.js 278-281: predictions.push(fallback)
PushFallback(preds, fallback) == Append(preds, fallback)

\* ai.js 213-217: a poem attempt was not accepted
PoemAttemptOver(t) ==
    IF AttemptsLeft(attempt[t])
    THEN /\ attempt' = [attempt EXCEPT ![t] = @ + 1]
         /\ calls' = [calls EXCEPT ![t] = @ + 1]
         /\ Counted(t)
         /\ CallGenerate(t)
         /\ UNCHANGED <<unit, predictions, exhausted>>
    ELSE /\ Settle(t, "resolved", FallbackPoemOf[wrappedData[t]])
         /\ exhausted' = [exhausted EXCEPT ![t] = Append(@, calls[t])]
         /\ UNCHANGED <<unit, attempt, predictions, calls, total>>

\* ai.js 239: the prompts generatePredictions loops over
NumUnits(wd) == Len(PromptsOf[wd])

\* a loop that keeps calling generate for a unit it has already accepted
UnitOver_IgnoresGenerated(accepted, a) == ~AttemptsLeft(a)

\* ai.js 241: the inner loop runs while attempt <= MAX_RETRIES && !generated
UnitOver(accepted, a) == accepted \/ ~AttemptsLeft(a)

\* a loop whose attempt counter is shared by all the units
NextUnitAttempt_Carried(a) == a

\* ai.js 241: let attempt = 1, anew for every prompt of the outer loop
NextUnitAttempt(a) == 1

\* ai.js 268-285: a prediction attempt ended, accepted with text or not
PredAttemptOver(t, accepted, text) ==
    LET wd == wrappedData[t]
        unitOver == UnitOver(accepted, attempt[t])
        preds == IF accepted THEN Append(predictions[t], text)
                 ELSE IF unitOver
                 THEN PushFallback(predictions[t], PromptsOf[wd][unit[t]].fallback)
                 ELSE predictions[t]
        spent == IF ~unitOver THEN exhausted[t]
                 ELSE Append(exhausted[t], IF accepted THEN 0 ELSE calls[t])
    IN  /\ predictions' = [predictions EXCEPT ![t] = preds]
        /\ exhausted' = [exhausted EXCEPT ![t] = spent]
        /\ IF unitOver /\ unit[t] = NumUnits(wd)
           THEN /\ Settle(t, "resolved", preds)
                /\ UNCHANGED <<unit, attempt, calls, total>>
           ELSE /\ unit' = [unit EXCEPT ![t] = IF unitOver THEN @ + 1 ELSE @]
                /\ attempt' = [attempt EXCEPT ![t] =
                                 IF unitOver THEN NextUnitAttempt(@) ELSE @ + 1]
                /\ calls' = [calls EXCEPT ![t] = IF unitOver THEN 1 ELSE @ + 1]
                /\ Counted(t)
                /\ CallGenerate(t)

\* generate rejected: its loadModel threw, or the backend call threw
GenerateFailed(t, err) ==
    CASE op[t] = "generatePredictions" ->
            \* ai.js 274-276: caught, the attempt is spent
            PredAttemptOver(t, FALSE, "")
      [] op[t] = "generatePoem" ->
            \* ai.js 179: no handler around the call
            /\ Settle(t, "rejected", err)
            /\ UNCHANGED loop
      [] OTHER ->
            /\ Settle(t, "rejected", err)
            /\ UNCHANGED loop

\* generate resolved with the text of the answer raw
GenerateReturned(t, raw) ==
    CASE op[t] = "generatePredictions" ->
            \* ai.js 252-273
            PredAttemptOver(t, Answer[raw].predValid,
                PromptsOf[wrappedData[t]][unit[t]].start \o " "
                    \o Answer[raw].completion)
      [] op[t] = "generatePoem" ->
            \* ai.js 182-213
            IF Answer[raw].poemAccepted
            THEN /\ Settle(t, "resolved", Answer[raw].haiku)
                 /\ UNCHANGED loop
            ELSE PoemAttemptOver(t)
      [] OTHER ->
            /\ Settle(t, "resolved", Answer[raw].text)
            /\ UNCHANGED loop

(***************************************************************************)
(* The calls.                                                              *)
(***************************************************************************)
\* loadModel(onProgress) called directly
StartLoadModel(t, obs) ==
    /\ ~IsBatch(t)
    /\ pc[t] = "idle"
    /\ op' = [op EXCEPT ![t] = "loadModel"]
    /\ LoadModelEntry(t, "direct", obs)
    /\ UNCHANGED <<wrappedData, loop, outcome, result, lastNote, firstLoad, fixed>>

\* generate(prompt) called directly
StartGenerate(t) ==
    /\ ~IsBatch(t)
    /\ pc[t] = "idle"
    /\ op' = [op EXCEPT ![t] = "generate"]
    /\ LoadModelEntry(t, "generate", FALSE)
    /\ UNCHANGED <<wrappedData, loop, outcome, result, lastNote, firstLoad, fixed>>

\* ai.js 143-174: generatePoem(wd, onProgress) up to await loadModel(onProgress)
StartPoem(t, wd, obs) ==
    /\ IsBatch(t)
    /\ pc[t] = "idle"
    /\ op' = [op EXCEPT ![t] = "generatePoem"]
    /\ wrappedData' = [wrappedData EXCEPT ![t] = wd]
    /\ LoadModelEntry(t, "batch", obs)
    /\ UNCHANGED <<loop, outcome, result, lastNote, firstLoad, fixed>>

\* ai.js 220-227: generatePredictions(wd, onProgress) up to await loadModel
StartPredictions(t, wd, obs) ==
    /\ IsBatch(t)
    /\ pc[t] = "idle"
    /\ op' = [op EXCEPT ![t] = "generatePredictions"]
    /\ wrappedData' = [wrappedData EXCEPT ![t] = wd]
    /\ LoadModelEntry(t, "batch", obs)
    /\ UNCHANGED <<loop, outcome, result, lastNote, firstLoad, fixed>>

\* a direct loadModel call settles as its body returned or threw
LoadModelSettles(t) ==
    /\ site[t] = "direct"
    /\ pc[t] \in {"lm_ret", "lm_throw"}
    /\ IF pc[t] = "lm_ret"
       THEN Settle(t, "resolved", ret[t])
       ELSE Settle(t, "rejected", LoadError)
    /\ UNCHANGED <<op, wrappedData, loop, lastNote, firstLoad, fixed>>

\* ai.js 174-179, 227-251: await loadModel(onProgress) returned; the loop
\* starts and makes its first generate call
BatchLoaded(t) ==
    /\ site[t] = "batch"
    /\ pc[t] = "lm_ret"
    /\ firstLoad' = [firstLoad EXCEPT ![t] = "returned"]
    /\ unit' = [unit EXCEPT ![t] = 1]
    /\ attempt' = [attempt EXCEPT ![t] = 1]
    /\ calls' = [calls EXCEPT ![t] = 1]
    /\ Counted(t)
    /\ CallGenerate(t)
    /\ UNCHANGED <<op, wrappedData, predictions, exhausted, lastNote, fixed>>

\* ai.js 174, 227: await loadModel(onProgress) threw, outside any handler
BatchLoadFailed(t) ==
    /\ site[t] = "batch"
    /\ pc[t] = "lm_throw"
    /\ firstLoad' = [firstLoad EXCEPT ![t] = "threw"]
    /\ Settle(t, "rejected", LoadError)
    /\ UNCHANGED <<op, wrappedData, loop, lastNote, fixed>>

\* ai.js 83-89: in generate, loadModel() returned gen and gen(messages, ..)
\* is called; calling null throws a TypeError
GenerateLoaded(t) ==
    /\ site[t] = "generate"
    /\ pc[t] = "lm_ret"
    /\ IF ret[t] = NoHandle
       THEN GenerateFailed(t, "TypeError: gen is not a function")
       ELSE /\ pc' = [pc EXCEPT ![t] = "gen_call"]
            /\ UNCHANGED <<backend, loader, loop, outcome, result>>
    /\ UNCHANGED <<op, wrappedData, lastNote, firstLoad, fixed>>

\* ai.js 83: in generate, loadModel() threw
GenerateLoadFailed(t) ==
    /\ site[t] = "generate"
    /\ pc[t] = "lm_throw"
    /\ GenerateFailed(t, LoadError)
    /\ UNCHANGED <<op, wrappedData, lastNote, firstLoad, fixed>>

\* ai.js 89-114: the backend answers raw; generate normalises it and returns
BackendRespond(t, raw) ==
    /\ pc[t] = "gen_call"
    /\ IF Answer[raw].threw
       THEN GenerateFailed(t, "TypeError: reading a property of null")
       ELSE GenerateReturned(t, raw)
    /\ UNCHANGED <<op, wrappedData, lastNote, firstLoad, fixed>>

\* ai.js 89: the backend call rejects
BackendThrow(t) ==
    /\ pc[t] = "gen_call"
    /\ GenerateFailed(t, "Error: backend")
    /\ UNCHANGED <<op, wrappedData, lastNote, firstLoad, fixed>>

\* what a call of loadModel or generate does once it has started
Step(t) ==
    \/ PollTimer(t)
    \/ \E percent \in ProgressPercents : PipelineProgress(t, percent)
    \/ PipelineResolve(t)
    \/ PipelineReject(t)
    \/ LoadModelSettles(t)
    \/ GenerateLoaded(t)
    \/ GenerateLoadFailed(t)
    \/ \E raw \in RawOutputs : BackendRespond(t, raw)
    \/ BackendThrow(t)

\* what a call of generatePoem or generatePredictions does besides
BatchStep(t) ==
    \/ BatchLoaded(t)
    \/ BatchLoadFailed(t)

\* a poem or predictions call with NumBackground callers of loadModel beside it
Next ==
    \/ \E t \in Tasks, wd \in Profiles, obs \in BOOLEAN : StartPoem(t, wd, obs)
    \/ \E t \in Tasks, wd \in Profiles, obs \in BOOLEAN : StartPredictions(t, wd, obs)
    \/ \E t \in 1..NumBackground, obs \in BOOLEAN : StartLoadModel(t, obs)
    \/ \E t \in Tasks : Step(t)
    \/ \E t \in Tasks : BatchStep(t)

Spec == Init /\ [][Next]_vars

\* direct callers of loadModel and generate only
NextLoad ==
    \/ \E t \in Tasks, obs \in BOOLEAN : StartLoadModel(t, obs)
    \/ \E t \in Tasks : StartGenerate(t)
    \/ \E t \in Tasks : Step(t)

SpecLoad == Init /\ [][NextLoad]_vars

\* ai.js 28-31: the 100 ms timer of every waiter fires again and again, and
\* the continuation of a call whose loadModel has returned or thrown runs;
\* nothing makes a pending pipeline() settle
SpecLoadFair ==
    /\ SpecLoad
    /\ \A t \in Tasks : WF_vars(PollTimer(t))
    /\ \A t \in Tasks : WF_vars(LoadModelSettles(t))

(***************************************************************************)
(* The pure functions, each applied once to an argument of a bounded set.  *)
(***************************************************************************)
\* the sequences over S of at most n elements
SeqsUpTo(S, n) == UNION {[1..k -> S] : k \in 0..n}

\* tokens that repeat as words and as pairs, short and long, in both cases
WordVocab == {"go", "wow", "Wow", "the"}

WordTexts == {Join(ws, " ") : ws \in SeqsUpTo(WordVocab, MaxTokens)}

\* tokens of completions, two of them runs of one character
PredVocab == {"zzzz", "zzzzz", "new", "ideas", "bloom"}

PredTexts == {Join(ws, " ") : ws \in SeqsUpTo(PredVocab, MaxTokens)}

\* lines of a response: two good ones, a single word, filler, a character run
LineVocab ==
    {"Morning light", "New ideas bloom", "Goodbye", "Here is more",
     "Soft zzzz sounds"}

PoemTexts == {Join(ls, "\n") : ls \in SeqsUpTo(LineVocab, MaxLines)}

\* values of a content field or of generated_text
Contents == {Null, "", "X"}

Entries == {NullEntry} \cup {Msg(r, c) : r \in {"user", "assistant"}, c \in Contents}

\* the shapes of ai.js 100-114: no output, no generated_text, a string, an
\* object with a content field, a list of messages
RawShapes ==
    {[shape |-> "no_output"], [shape |-> "null"]}
        \cup {[shape |-> "string", text |-> c] : c \in Contents}
        \cup {[shape |-> "object", content |-> c] : c \in Contents}
        \cup {[shape |-> "messages", msgs |-> ms] : ms \in SeqsUpTo(Entries, MaxMsgs)}

\* the function fn is about to be applied to arg
Applying(fn, arg) == probe = [fn |-> fn, arg |-> arg, done |-> FALSE, out |-> Null]

\* the function fn was applied
Applied(fn) == probe.fn = fn /\ probe.done

\* the state of the exported functions' calls
program ==
    <<backend, op, pc, loader, wrappedData, loop, outcome, result, lastNote,
      firstLoad, counting>>

InitPure ==
    /\ InitProgram
    /\ counting = FALSE
    /\ \/ \E text \in WordTexts : Applying("hasWordRepetition", text)
       \/ \E text \in PredTexts : Applying("isValid", text)
       \/ \E text \in PoemTexts : Applying("poem", text)
       \/ \E raw \in RawShapes : Applying("normalize", raw)

Return(out) == probe' = [probe EXCEPT !.done = TRUE, !.out = out]

\* ai.js 117-137
ApplyHasWordRepetition ==
    /\ probe.fn = "hasWordRepetition" /\ ~probe.done
    /\ Return(hasWordRepetition(probe.arg))
    /\ UNCHANGED program

\* ai.js 252-266: the completion cut out of a response, and isValid of it
ApplyIsValid ==
    /\ probe.fn = "isValid" /\ ~probe.done
    /\ LET completion == Completion(probe.arg)
       IN  Return([completion |-> completion, valid |-> isValid(completion)])
    /\ UNCHANGED program

\* ai.js 182-208: the lines kept of a response, the test of line 207 and the
\* haiku of line 208
ApplyPoemValidator ==
    /\ probe.fn = "poem" /\ ~probe.done
    /\ Return([lines |-> PoemLines(probe.arg),
               accepted |-> PoemAccepted(probe.arg),
               haiku |-> Haiku(probe.arg)])
    /\ UNCHANGED program

\* ai.js 101-114
ApplyNormalize ==
    /\ probe.fn = "normalize" /\ ~probe.done
    /\ Return([threw |-> NormalizeThrows(probe.arg),
               text |-> IF NormalizeThrows(probe.arg) THEN Null
                        ELSE Normalize(probe.arg)])
    /\ UNCHANGED program

NextPure ==
    \/ ApplyHasWordRepetition
    \/ ApplyIsValid
    \/ ApplyPoemValidator
    \/ ApplyNormalize

SpecPure == InitPure /\ [][NextPure]_vars

(***************************************************************************)
(* One poem or predictions call beside callers of loadModel and generate,  *)
(* its generate calls counted.                                             *)
(***************************************************************************)
InitConc ==
    /\ InitProgram
    /\ counting = TRUE
    /\ probe = NoProbe

NextConc ==
    \/ \E t \in Tasks, obs \in BOOLEAN : StartPoem(t, wdFull, obs)
    \/ \E t \in Tasks, obs \in BOOLEAN : StartPredictions(t, wdFull, obs)
    \/ \E t \in 1..NumBackground, obs \in BOOLEAN : StartLoadModel(t, obs)
    \/ \E t \in 1..NumBackground : StartGenerate(t)
    \/ \E t \in Tasks : Step(t)
    \/ \E t \in Tasks : BatchStep(t)

\* every pending pipeline() call settles
LoadCompletes(t) == PipelineResolve(t) \/ PipelineReject(t)

\* every pending gen(messages, ...) call settles
BackendCompletes(t) == (\E raw \in RawOutputs : BackendRespond(t, raw)) \/ BackendThrow(t)

\* the code after an await runs once the awaited call has settled
Continues(t) ==
    \/ LoadModelSettles(t)
    \/ GenerateLoaded(t)
    \/ GenerateLoadFailed(t)
    \/ BatchStep(t)

\* loads and backend calls complete, timers fire, continuations run
SpecConc ==
    /\ InitConc
    /\ [][NextConc]_vars
    /\ \A t \in Tasks :
          /\ WF_vars(LoadCompletes(t))
          /\ WF_vars(BackendCompletes(t))
          /\ WF_vars(PollTimer(t))
          /\ WF_vars(Continues(t))

TypeOK ==
    /\ counting \in BOOLEAN
    /\ probe.done \in BOOLEAN
    /\ \A t \in Tasks : total[t] \in 0..(4 * MAX_RETRIES)
    /\ generator \in 0..loadsStarted
    /\ modelLoading \in BOOLEAN
    /\ modelReady \in BOOLEAN
    /\ \A t \in Tasks :
        /\ pc[t] \in {"idle", "lm_wait", "lm_loading", "lm_ret", "lm_throw",
                      "gen_call", "done"}
        /\ outcome[t] \in {"pending", "resolved", "rejected"}
        /\ unit[t] \in 0..4
        /\ attempt[t] \in 0..MAX_RETRIES

(***************************************************************************)
(* Properties.                                                             *)
(***************************************************************************)
IsBatchOp(t) == op[t] \in {"generatePoem", "generatePredictions"}

\* the task's call has resolved
Resolved(t) == pc[t] = "done" /\ outcome[t] = "resolved"

\* a direct loadModel call that resolved with the cached pipeline
GotHandle(t) ==
    op[t] = "loadModel" /\ Resolved(t) /\ result[t] # NoHandle

\* every unit of the task's finished batch fell back
AllExhausted(t) ==
    /\ IsBatchOp(t)
    /\ Resolved(t)
    /\ exhausted[t] # <<>>
    /\ \A k \in 1..Len(exhausted[t]) : exhausted[t][k] # 0

\* C1: generatePoem and generatePredictions never reject, whatever the
\* backend does: no call of either is ever settled as rejected.
C1_NeverRejects ==
    \A t \in Tasks : IsBatchOp(t) => outcome[t] # "rejected"

\* C2: at most one pipeline load is pending at any time, however many
\* loadModel calls arrive while it is; the loadModel calls that resolve with a
\* handle all resolve with the one cached handle, and a call that waited on
\* the load that succeeded resolves with that load's handle.
C2_OneLoadOneHandle ==
    /\ Cardinality({t \in Tasks : pc[t] = "lm_loading"}) <= 1
    /\ \A t \in Tasks : GotHandle(t) => result[t] = generator
    /\ \A t \in Tasks :
          (op[t] = "loadModel" /\ Resolved(t) /\ joined[t] # 0
             /\ joined[t] = generator) => result[t] = generator

\* one call started the load, two more arrived while it was pending, and all
\* three resolved with its handle
C2_Witness ==
    \E a, b, c \in Tasks :
        /\ a # b /\ b # c /\ a # c
        /\ GotHandle(a) /\ GotHandle(b) /\ GotHandle(c)
        /\ joined[a] = 0
        /\ joined[b] = generator /\ joined[c] = generator
        /\ result[a] = result[b] /\ result[b] = result[c]

\* C3: a loadModel call that waited on a load that failed observes the
\* failure: it is rejected, never resolved.
C3_WaitersSeeFailure ==
    \A t \in Tasks :
        (op[t] = "loadModel" /\ pc[t] = "done" /\ joined[t] \in loadsFailed)
            => outcome[t] = "rejected"

\* C4: Failed is terminal: once a load has failed no load is pending again
\* and the state is never Loading again.
C4_FailedIsTerminal ==
    loadsFailed # {} => (InFlight = {} /\ ~modelLoading)

\* the text the fallback synthesizer gives for the task's call
FallbackOf(t) ==
    IF op[t] = "generatePoem" THEN FallbackPoemOf[wrappedData[t]]
    ELSE FallbackPredictionsOf[wrappedData[t]]

\* C5: when the batch's own loadModel call fails, the batch makes no generate
\* call and starts no further load, and the caller receives the fallback
\* text of every unit.
C5_FirstLoadFailureFallsBack ==
    \A t \in Tasks :
        (firstLoad[t] = "threw" /\ pc[t] = "done")
            => /\ calls[t] = 0
               /\ outcome[t] = "resolved"
               /\ result[t] = FallbackOf(t)

\* C6: a unit (the poem, each prediction) falls back after exactly
\* MAX_RETRIES generate calls, and no unit ever makes more.
C6_FiveCallsBeforeFallback ==
    \A t \in Tasks :
        /\ calls[t] <= MAX_RETRIES
        /\ \A k \in 1..Len(exhausted[t]) : exhausted[t][k] \in {0, MAX_RETRIES}

\* all four predictions fell back, each after MAX_RETRIES generate calls
C6_Witness ==
    \E t \in Tasks :
        /\ op[t] = "generatePredictions"
        /\ AllExhausted(t)
        /\ Len(exhausted[t]) = NumUnits(wrappedData[t])
        /\ \A k \in 1..Len(exhausted[t]) : exhausted[t][k] = MAX_RETRIES

\* C7: when every unit fell back, generatePoem returned
\* getFallbackPoem(profile) and generatePredictions returned
\* getFallbackPredictions(profile).
C7_FallbackIsSynthesizer ==
    \A t \in Tasks : AllExhausted(t) => result[t] = FallbackOf(t)

\* the prediction generatePredictions returns for unit k from the answer raw
ValidatedEntry(wd, k, raw) ==
    PromptsOf[wd][k].start \o " " \o Answer[raw].completion

\* C8: a result of generatePredictions has exactly 4 entries in the order of
\* the prompts; entry k is not empty and is the validated output of unit k or
\* the fallback of unit k, the fallback exactly when the unit was exhausted.
C8_FourEntries ==
    \A t \in Tasks :
        (op[t] = "generatePredictions" /\ Resolved(t)) =>
            LET wd == wrappedData[t]
            IN  /\ Len(result[t]) = 4
                /\ Len(exhausted[t]) = 4
                /\ \A k \in 1..Len(result[t]) :
                      /\ result[t][k] # ""
                      /\ IF exhausted[t][k] # 0
                         THEN result[t][k] = PromptsOf[wd][k].fallback
                         ELSE \E raw \in RawOutputs :
                                 /\ Answer[raw].predValid
                                 /\ result[t][k] = ValidatedEntry(wd, k, raw)

\* a result that mixes validated predictions and fallbacks
C8_Witness ==
    \E t \in Tasks :
        /\ op[t] = "generatePredictions"
        /\ Resolved(t)
        /\ \E j, k \in 1..Len(exhausted[t]) :
              j < k /\ exhausted[t][j] # 0 /\ exhausted[t][k] = 0

\* a loadModel call of the task comes back in this step
LoadModelReturns(t) ==
    /\ pc'[t] = "lm_ret"
    /\ pc[t] # "lm_ret" \/ site'[t] # site[t] \/ ret'[t] # ret[t]

\* C9: once modelReady is set it stays set, the cached handle is not null and
\* is never replaced, no load is started and no call begins to wait, and
\* every loadModel call that comes back returns the cached handle.
C9_ReadyIsStable ==
    [][ modelReady =>
          /\ generator # NoHandle
          /\ modelReady'
          /\ generator' = generator
          /\ loadsStarted' = loadsStarted
          /\ ~modelLoading'
          /\ \A t \in Tasks :
                /\ pc'[t] \in {"lm_wait", "lm_loading"} => pc[t] = pc'[t]
                /\ LoadModelReturns(t) => ret'[t] = generator ]_vars

\* two calls that never waited resolved with the cached handle: one of them
\* was made after the load had succeeded
C9_Witness ==
    \E a, b \in Tasks :
        /\ a # b
        /\ modelReady
        /\ GotHandle(a) /\ GotHandle(b)
        /\ joined[a] = 0 /\ joined[b] = 0
        /\ result[a] = generator /\ result[b] = generator

\* C10: the observer of every loadModel call that resolved with the handle
\* was last notified with { percent: 100, status: 'ready' }.
C10_ObserversSeeReady ==
    \A t \in Tasks :
        (GotHandle(t) /\ lmObs[t]) => lastNote[t].status = "ready"

\* the call has entered its retry loop: its first generate call was made
InLoop(t) == IsBatchOp(t) /\ attempt[t] >= 1

\* C11: in the poem loop and in each prediction loop an error thrown by a
\* generate call is caught and costs one attempt; it never escapes the loop,
\* so a call that has entered its loop is never rejected.
C11_GenerateErrorsAreCaught ==
    \A t \in Tasks : InLoop(t) => outcome[t] # "rejected"

\* C12: the first candidate that passes validation ends the loop of its
\* unit: while generatePredictions works on unit u exactly the u - 1 units
\* before it have an entry, so no accepted unit is tried again; an entry of
\* a unit that was not exhausted is built from a valid candidate and is not
\* the fallback; an accepted poem is the haiku of an accepted response.
C12_FirstValidCandidateWins ==
    \A t \in Tasks :
        /\ (op[t] = "generatePredictions" /\ InLoop(t)) =>
              LET wd == wrappedData[t]
              IN  /\ Len(predictions[t]) =
                        IF pc[t] = "done" THEN unit[t] ELSE unit[t] - 1
                  /\ Len(exhausted[t]) = Len(predictions[t])
                  /\ \A k \in 1..Len(predictions[t]) :
                        exhausted[t][k] = 0 =>
                           /\ predictions[t][k] # PromptsOf[wd][k].fallback
                           /\ \E raw \in RawOutputs :
                                 /\ Answer[raw].predValid
                                 /\ predictions[t][k] = ValidatedEntry(wd, k, raw)
        /\ (op[t] = "generatePoem" /\ Resolved(t) /\ exhausted[t] = <<>>) =>
              /\ result[t] # FallbackPoemOf[wrappedData[t]]
              /\ \E raw \in RawOutputs :
                    /\ Answer[raw].poemAccepted
                    /\ result[t] = Answer[raw].haiku

\* generatePredictions is calling generate for its third unit after its
\* second unit was accepted
C12_Witness ==
    \E t \in Tasks :
        /\ op[t] = "generatePredictions"
        /\ pc[t] = "gen_call"
        /\ unit[t] = 3
        /\ Len(exhausted[t]) = 2
        /\ exhausted[t][2] = 0

\* C13: the retry budgets of the prediction units are independent: a new
\* unit starts at attempt 1 whatever the units before it used, a unit falls
\* back only after its own MAX_RETRIES calls, and an exhausted unit appends
\* its own fallback and leaves the entries of the other units as they were.
C13_BudgetsAreIndependent ==
    [][ \A t \in Tasks :
          op[t] = "generatePredictions" =>
             LET wd == wrappedData[t]
                 n == Len(predictions[t])
             IN  /\ unit'[t] # unit[t] =>
                       /\ unit'[t] = unit[t] + 1
                       /\ attempt'[t] = 1
                       /\ calls'[t] = 1
                 /\ Len(predictions'[t]) \in {n, n + 1}
                 /\ SubSeq(predictions'[t], 1, n) = predictions[t]
                 /\ exhausted'[t] # exhausted[t] =>
                       /\ exhausted'[t][n + 1] \in {0, MAX_RETRIES}
                       /\ exhausted'[t][n + 1] # 0 =>
                             /\ attempt[t] = MAX_RETRIES
                             /\ predictions'[t] =
                                   Append(predictions[t],
                                          PromptsOf[wd][unit[t]].fallback) ]_vars

\* the first unit was exhausted, the second was accepted, and the third was
\* exhausted after five calls of its own
C13_Witness ==
    \E t \in Tasks :
        /\ op[t] = "generatePredictions"
        /\ Len(exhausted[t]) >= 3
        /\ exhausted[t][1] = MAX_RETRIES
        /\ exhausted[t][2] = 0
        /\ exhausted[t][3] = MAX_RETRIES

\* the tokens hasWordRepetition counts (ai.js 118)
TokensOf(text) == SplitWs(ToLowerCase(text))

\* some token of length >= 3 occurs 3 or more times in the text
TokenThrice(text) ==
    LET words == TokensOf(text)
    IN  \E i \in 1..Len(words) :
            /\ Len(words[i]) >= 3
            /\ Cardinality({j \in 1..Len(words) : words[j] = words[i]}) >= 3

\* two adjacent two-token windows of the text are identical
WindowTwice(text) ==
    LET words == TokensOf(text)
    IN  \E i \in 1..Len(words) :
            /\ i + 3 <= Len(words)
            /\ words[i] = words[i + 2]
            /\ words[i + 1] = words[i + 3]

\* C14: hasWordRepetition returns true for every text in which some token of
\* length >= 3 occurs 3 or more times or two adjacent two-token windows are
\* identical, whatever the number of tokens, and false for every other text.
C14_RepetitionIsDetected ==
    Applied("hasWordRepetition") =>
        (probe.out <=> (TokenThrice(probe.arg) \/ WindowTwice(probe.arg)))

\* the lines of a text
LinesOf(text) == Split(text, "\n")

\* C15: the poem validator and the prediction validator reject every
\* candidate with a run of the same character four or more times in a row:
\* no completion that isValid accepts and no line of an accepted poem
\* contains such a run.
C15_NoLongCharRuns ==
    /\ (Applied("isValid") /\ probe.out.valid) =>
          ~HasCharRun(probe.out.completion, 4)
    /\ (Applied("poem") /\ probe.out.accepted) =>
          \A i \in 1..Len(LinesOf(probe.out.haiku)) :
              ~HasCharRun(LinesOf(probe.out.haiku)[i], 4)

\* a line the filter of ai.js 187-193 kept passes the other per-line checks
\* too: no leaked identity, no character run, 2 to 8 words
LinePasses(l) == ~LineIsGibberish(l) /\ validLineLengths(<<l>>)

\* the lines of a response that survive every per-line check
Survivors(lines) == SelectSeq(lines, LinePasses)

\* C16: a poem attempt is accepted exactly when at least 3 lines of the
\* response survive the per-line filters, whatever the other lines are, and
\* the accepted result is the first 3 surviving lines joined by newlines.
C16_ThreeSurvivingLines ==
    Applied("poem") =>
        LET good == Survivors(probe.out.lines)
        IN  /\ probe.out.accepted <=> Len(good) >= 3
            /\ probe.out.accepted =>
                  probe.out.haiku = Join(SubSeq(good, 1, 3), "\n")

\* the backend returned an output
Present(raw) == raw.shape # "no_output"

\* generated_text is null or undefined
NullPosition(raw) ==
    \/ raw.shape = "null"
    \/ raw.shape = "string" /\ raw.text = Null

\* C17: the normalisation of generate never throws and yields a string for
\* every shape of the raw response: a string, a list of messages with or
\* without an assistant entry or empty, an object with a content field, and
\* null or undefined at any of these positions, which yield the empty string.
C17_NormalizeNeverThrows ==
    (Applied("normalize") /\ Present(probe.arg)) =>
        /\ ~probe.out.threw
        /\ probe.out.text # Null
        /\ NullPosition(probe.arg) => probe.out.text = ""

\* the task's loadModel call is parked in the loop of ai.js 27-29
Parked(t) == pc[t] = "lm_wait"

\* C18: when a load finishes, by success or by failure, modelLoading is
\* cleared, so modelLoading is never true without a pending pipeline() call,
\* and every loadModel call parked while no load is in flight leaves its
\* waiting loop, unless a new load has been started in the meantime.
C18_WaitersResume ==
    /\ [](modelLoading => InFlight # {})
    /\ \A t \in Tasks :
          (Parked(t) /\ ~modelLoading) ~> (~Parked(t) \/ modelLoading)

\* a call that waited for a load that failed has left its waiting loop
C18_Witness ==
    \E t \in Tasks :
        /\ joined[t] # 0
        /\ joined[t] \in loadsFailed
        /\ pc[t] = "lm_ret"
        /\ ~modelLoading

\* the generate calls the task's call may make: MAX_RETRIES per unit
CallBudget(t) ==
    IF op[t] = "generatePredictions"
    THEN NumUnits(wrappedData[t]) * MAX_RETRIES
    ELSE MAX_RETRIES

\* C19: if every load and every backend call completes, every generatePoem
\* and generatePredictions call settles, after at most 5 generate calls for
\* the poem and at most 20 for the predictions, also with other callers
\* loading and generating beside it.
C19_BatchCallsSettle ==
    /\ [](\A t \in Tasks : IsBatchOp(t) => total[t] <= CallBudget(t))
    /\ \A t \in Tasks : IsBatchOp(t) ~> (IsBatchOp(t) /\ pc[t] = "done")

\* a predictions call resolved after 20 generate calls while another caller
\* had called generate
C19_Witness ==
    \E t, u \in Tasks :
        /\ op[t] = "generatePredictions"
        /\ Resolved(t)
        /\ total[t] = 4 * MAX_RETRIES
        /\ op[u] = "generate"

====
